---- MODULE Spec2Model ----
(***************************************************************************)
(* A model of the ascii-assets crate: the Color <-> ANSI-256 conversion    *)
(* (src/src/colour.rs), the TerminalChar wire codec, AsciiSprite and the   *)
(* AsciiVideo container format (src/src/lib.rs).                           *)
(*                                                                         *)
(* Rust values are represented as follows.                                 *)
(*   u8/u16/u32      naturals, reduced modulo 2^w where the code can wrap  *)
(*   char            its code point (a natural satisfying IsScalar)        *)
(*   Option<T>       <<>> for None, <<x>> for Some(x)                      *)
(*   io::Result<T>   [ok |-> TRUE, val |-> x] or [ok |-> FALSE, err |-> e] *)
(*   Vec<u8> / file  a sequence of naturals in 0..255                      *)
(*   a reader        the sequence of bytes not consumed yet                *)
(***************************************************************************)
EXTENDS Integers, Sequences, FiniteSets, TLC

VARIABLES
    pc,               \* position of the driver of the operation under study
    cell,             \* TerminalChar handed to write_to
    buf,              \* the Vec<u8> sink write_to fills, then read_from's source
    decoded,          \* io::Result<TerminalChar> of read_from
    colour,           \* the Color as_ansi256 is called on
    overflow_checks,  \* build profile: TRUE = arithmetic overflow panics
    ansi,             \* outcome of as_ansi256
    colour_out,       \* Color::from_ansi256 of that code
    args,             \* arguments of AsciiSprite::new / AsciiVideo::new
    sprite,           \* io::Result<AsciiSprite> of AsciiSprite::new
    grid,             \* as_grid() of the sprite
    got,              \* get_char(x, y) for every probed (x, y)
    video,            \* io::Result<AsciiVideo> of AsciiVideo::new
    file,             \* contents of the file at `path`
    loaded            \* io::Result<AsciiVideo> of read_from_file

vars == <<pc, cell, buf, decoded, colour, overflow_checks, ansi, colour_out,
          args, sprite, grid, got, video, file, loaded>>

(***************************************************************************)
(* Option and io::Result                                                   *)
(***************************************************************************)
None == <<>>

Some(x) == <<x>>

Ok(x) == [ok |-> TRUE, val |-> x]

Err(e) == [ok |-> FALSE, err |-> e]

\* io::Error::new(kind, msg)
Error(kind, msg) == [kind |-> kind, msg |-> msg]

\* the error read_exact and the read_uN methods return on a short stream
UnexpectedEof == Err(Error("UnexpectedEof", "failed to fill whole buffer"))

(***************************************************************************)
(* Integer helpers                                                         *)
(***************************************************************************)
Min(a, b) == IF a < b THEN a ELSE b

\* 2^8, 2^16, 2^24: the weights of the bytes of a little-endian integer
B1 == 2^8

B2 == 2^16

B3 == 2^24

\* Faulty variant of IsScalar: the surrogate range is not excluded
IsScalar_with_surrogates(code) ==
    /\ code >= 0
    /\ code <= 1114111

\* char::from_u32 accepts exactly the Unicode scalar values
IsScalar(code) ==
    /\ code >= 0
    /\ code <= 1114111
    /\ ~(code >= 55296 /\ code <= 57343)

from_u32(code) == IF IsScalar(code) THEN Some(code) ELSE None

(***************************************************************************)
(* byteorder: little-endian writers and readers.  A reader is the sequence *)
(* of remaining bytes; a successful read returns the value and the rest.   *)
(***************************************************************************)
Read(v, rest) == [ok |-> TRUE, val |-> v, rest |-> rest]

Drop(s, n) == SubSeq(s, n + 1, Len(s))

write_u8(n) == <<n % B1>>

\* the `?` operator: res is evaluated once; its error is returned as it is,
\* its success is handed on to F
Try(res, F(_)) == CHOOSE y \in {IF x.ok THEN F(x) ELSE x : x \in {res}} : TRUE

\* Faulty variant of write_u16_le: the high byte comes first
write_u16_be(n) == <<(n \div B1) % B1, n % B1>>

write_u16_le(n) == <<n % B1, (n \div B1) % B1>>

\* the top byte is taken modulo 2^8, which is the truncation of `as u32`
write_u32_le(n) ==
    <<n % B1, (n \div B1) % B1, (n \div B2) % B1, (n \div B3) % B1>>

read_u8(r) ==
    IF Len(r) < 1 THEN UnexpectedEof ELSE Read(r[1], Drop(r, 1))

\* Faulty variant of read_u16_le: the high byte is expected first
read_u16_be(r) ==
    IF Len(r) < 2 THEN UnexpectedEof
    ELSE Read(r[2] + B1 * r[1], Drop(r, 2))

read_u16_le(r) ==
    IF Len(r) < 2 THEN UnexpectedEof
    ELSE Read(r[1] + B1 * r[2], Drop(r, 2))

read_u32_le(r) ==
    IF Len(r) < 4 THEN UnexpectedEof
    ELSE Read(r[1] + B1 * r[2] + B2 * r[3] + B3 * r[4], Drop(r, 4))

read_exact(r, n) ==
    IF Len(r) < n THEN UnexpectedEof
    ELSE Read(SubSeq(r, 1, n), Drop(r, n))

(***************************************************************************)
(* Color (colour.rs)                                                       *)
(***************************************************************************)
Color_rgb(r, g, b) == [reset |-> FALSE, rgb |-> <<r, g, b>>]

Color_reset == [reset |-> TRUE, rgb |-> <<0, 0, 0>>]

\* the table of the 16 standard colours, codes 0..=15
table ==
    << <<0, 0, 0>>,       <<128, 0, 0>>,   <<0, 128, 0>>,   <<128, 128, 0>>,
       <<0, 0, 128>>,     <<128, 0, 128>>, <<0, 128, 128>>, <<192, 192, 192>>,
       <<128, 128, 128>>, <<255, 0, 0>>,   <<0, 255, 0>>,   <<255, 255, 0>>,
       <<0, 0, 255>>,     <<255, 0, 255>>, <<0, 255, 255>>, <<255, 255, 255>> >>

to_rgb(v) == IF v = 0 THEN 0 ELSE 55 + v * 40

ansi256_to_rgb(code) ==
    IF code <= 15 THEN table[code + 1]
    ELSE IF code <= 231
         THEN LET c == code - 16
                  r == c \div 36
                  g == (c % 36) \div 6
                  b == c % 6
              IN  <<to_rgb(r), to_rgb(g), to_rgb(b)>>
         ELSE LET gray == 8 + (code - 232) * 10
              IN  <<gray, gray, gray>>

color_dist(r1, g1, b1, r2, g2, b2) ==
    LET dr == r1 - r2
        dg == g1 - g2
        db == b1 - b2
    IN  dr * dr + dg * dg + db * db

\* to_6 with wrapping u8 subtraction; the subtraction is reached for v >= 115
to_6(v) ==
    IF v < 48 THEN 0
    ELSE IF v < 115 THEN 1
         ELSE Min(((v - 35) % B1) \div 40, 5)

\* avg = (r + g + b) / 3 computed on u16
channel_avg(r, g, b) == ((r + g + b) % B2) \div 3

\* gray_index with wrapping u16 subtraction
gray_index(avg) ==
    IF avg > 238 THEN 23 ELSE Min(((avg - 3) % B2) \div 10, 23)

\* TRUE when some arithmetic of rgb_to_ansi256 leaves the range of its type:
\* v - 35 on u8, the cube index on u8, avg - 3 on u16, 232 + gray_index on u8
rgb_to_ansi256_overflows(r, g, b) ==
    LET avg == channel_avg(r, g, b) IN
    \/ \E v \in {r, g, b} : v >= 115 /\ v - 35 < 0
    \/ 16 + 36 * to_6(r) + 6 * to_6(g) + to_6(b) >= B1
    \/ avg <= 238 /\ avg - 3 < 0
    \/ 232 + gray_index(avg) >= B1

\* the cube candidate, 16 + 36*r6 + 6*g6 + b6 on u8
cube_index(r, g, b) == (16 + 36 * to_6(r) + 6 * to_6(g) + to_6(b)) % B1

\* the grey candidate, 232 + gray_index on u8
gray_code(r, g, b) == (232 + gray_index(channel_avg(r, g, b))) % B1

\* Faulty variant of rgb_to_ansi256_wrapping: the grey candidate is returned
\* when the two distances are equal
rgb_to_ansi256_grey_on_ties(r, g, b) ==
    LET c          == ansi256_to_rgb(cube_index(r, g, b))
        cube_dist  == color_dist(r, g, b, c[1], c[2], c[3])
        gy         == ansi256_to_rgb(gray_code(r, g, b))
        gray_dist  == color_dist(r, g, b, gy[1], gy[2], gy[3])
    IN  IF gray_dist <= cube_dist THEN gray_code(r, g, b) ELSE cube_index(r, g, b)

\* the value rgb_to_ansi256 returns when no overflow check stops it
rgb_to_ansi256_wrapping(r, g, b) ==
    LET c          == ansi256_to_rgb(cube_index(r, g, b))
        cube_dist  == color_dist(r, g, b, c[1], c[2], c[3])
        gy         == ansi256_to_rgb(gray_code(r, g, b))
        gray_dist  == color_dist(r, g, b, gy[1], gy[2], gy[3])
    IN  IF gray_dist < cube_dist THEN gray_code(r, g, b) ELSE cube_index(r, g, b)

Returned(v) == [panicked |-> FALSE, val |-> v]

Panicked == [panicked |-> TRUE]

\* rgb_to_ansi256 under a build profile: with overflow checks (the debug
\* profile) an out-of-range intermediate panics, without them it wraps
rgb_to_ansi256(r, g, b, checks) ==
    IF checks /\ rgb_to_ansi256_overflows(r, g, b) THEN Panicked
    ELSE Returned(rgb_to_ansi256_wrapping(r, g, b))

as_ansi256(self, checks) ==
    IF self.reset THEN Returned(None)
    ELSE LET code == rgb_to_ansi256(self.rgb[1], self.rgb[2], self.rgb[3], checks)
         IN  IF code.panicked THEN Panicked ELSE Returned(Some(code.val))

Color_from_ansi256(code) == [reset |-> FALSE, rgb |-> ansi256_to_rgb(code)]

(***************************************************************************)
(* TerminalChar codec (lib.rs)                                             *)
(***************************************************************************)
TerminalChar(chr, fg, bg) == [chr |-> chr, fg_color |-> fg, bg_color |-> bg]

\* Faulty variant of write_colour: the payload is emitted as r, b, g
write_colour_rbg(field) ==
    IF field # None
    THEN IF ~field[1].reset
         THEN write_u8(1) \o write_u8(field[1].rgb[1])
                          \o write_u8(field[1].rgb[3])
                          \o write_u8(field[1].rgb[2])
         ELSE write_u8(0)
    ELSE write_u8(0)

\* Faulty variant of write_colour: the reset flag is not looked at
write_colour_no_reset_test(field) ==
    IF field # None
    THEN write_u8(1) \o write_u8(field[1].rgb[1])
                     \o write_u8(field[1].rgb[2])
                     \o write_u8(field[1].rgb[3])
    ELSE write_u8(0)

\* one colour field of write_to: presence byte, then r, g, b when present
write_colour(field) ==
    IF field # None
    THEN IF ~field[1].reset
         THEN write_u8(1) \o write_u8(field[1].rgb[1])
                          \o write_u8(field[1].rgb[2])
                          \o write_u8(field[1].rgb[3])
         ELSE write_u8(0)
    ELSE write_u8(0)

TerminalChar_write_to(c) ==
    write_u32_le(c.chr) \o write_colour(c.fg_color) \o write_colour(c.bg_color)

\* one colour field of read_from: the presence byte is compared with 1
read_colour(r) ==
    Try(read_u8(r), LAMBDA flag :
        IF flag.val = 1
        THEN Try(read_u8(flag.rest), LAMBDA r8 :
             Try(read_u8(r8.rest), LAMBDA g8 :
             Try(read_u8(g8.rest), LAMBDA b8 :
                 Read(Some(Color_rgb(r8.val, g8.val, b8.val)), b8.rest))))
        ELSE Read(None, flag.rest))

TerminalChar_read_from(r) ==
    Try(read_u32_le(r), LAMBDA code :
        LET chr == from_u32(code.val) IN
        IF chr = None THEN Err(Error("InvalidData", "invalid Unicode scalar value"))
        ELSE Try(read_colour(code.rest), LAMBDA fg :
             Try(read_colour(fg.rest), LAMBDA bg :
                 Read(TerminalChar(chr[1], fg.val, bg.val), bg.rest))))

\* what the caller of read_from keeps: the io::Result, without the reader
Result(x) == IF x.ok THEN Ok(x.val) ELSE Err(x.err)

(***************************************************************************)
(* AsciiSprite (lib.rs)                                                    *)
(***************************************************************************)
AsciiSprite(width, height, pixels) ==
    [width |-> width, height |-> height, pixels |-> pixels]

\* Faulty variant of write_pixels: the cells are emitted last to first
RECURSIVE write_pixels_reversed(_)
write_pixels_reversed(pixels) ==
    IF pixels = <<>> THEN <<>>
    ELSE write_pixels_reversed(Tail(pixels)) \o TerminalChar_write_to(Head(pixels))

\* Faulty variant of AsciiSprite_new: the product is formed on u16 and wraps
AsciiSprite_new_u16_product(width, height, pixels) ==
    IF Len(pixels) # (width * height) % B2
    THEN Err(Error("InvalidInput", "pixel count does not match width*height"))
    ELSE Ok(AsciiSprite(width, height, pixels))

\* the product is formed on usize, which holds every u16 * u16
AsciiSprite_new(width, height, pixels) ==
    IF Len(pixels) # width * height
    THEN Err(Error("InvalidInput", "pixel count does not match width*height"))
    ELSE Ok(AsciiSprite(width, height, pixels))

RECURSIVE write_pixels(_)
write_pixels(pixels) ==
    IF pixels = <<>> THEN <<>>
    ELSE TerminalChar_write_to(Head(pixels)) \o write_pixels(Tail(pixels))

AsciiSprite_write_to(self) == write_pixels(self.pixels)

\* the loop of AsciiSprite::read_from: n cells are still to be read from r
RECURSIVE read_pixels(_, _, _)
read_pixels(r, n, pixels) ==
    IF n = 0 THEN Read(pixels, r)
    ELSE Try(TerminalChar_read_from(r), LAMBDA c :
             read_pixels(c.rest, n - 1, Append(pixels, c.val)))

AsciiSprite_read_from(r, width, height) ==
    Try(read_pixels(r, width * height, <<>>), LAMBDA px :
        Read(AsciiSprite(width, height, px.val), px.rest))

\* rows and columns are 1-based here: grid[row + 1][col + 1] is the code's
\* grid[row][col], and pixels[idx + 1] the code's pixels[idx]
as_grid(self) ==
    [row \in 1..self.height |->
        [col \in 1..self.width |->
            self.pixels[(row - 1) * self.width + (col - 1) + 1]]]

\* Faulty variant of get_char: the index is formed column-major
get_char_column_major(self, x, y) ==
    IF x >= self.width \/ y >= self.height THEN None
    ELSE Some(self.pixels[x * self.height + y + 1])

get_char(self, x, y) ==
    IF x >= self.width \/ y >= self.height THEN None
    ELSE Some(self.pixels[y * self.width + x + 1])

(***************************************************************************)
(* AsciiVideo (lib.rs)                                                     *)
(***************************************************************************)
\* b"ASCV"
MAGIC == <<65, 83, 67, 86>>

VERSION == 1

AsciiVideo(width, height, frames) ==
    [width |-> width, height |-> height, frames |-> frames]

\* Faulty variant of frame_mismatch: only the width is compared
frame_mismatch_width_only(f, width, height) == f.width # width

\* the test AsciiVideo::new applies to each frame
frame_mismatch(f, width, height) == f.width # width \/ f.height # height

\* the loop of AsciiVideo::new from frame i (1-based) on: the error of the
\* first frame that disagrees, carrying the code's 0-based index
RECURSIVE check_frames(_, _, _, _)
check_frames(frames, i, width, height) ==
    IF i > Len(frames) THEN Ok(AsciiVideo(width, height, frames))
    ELSE IF frame_mismatch(frames[i], width, height)
         THEN Err([kind |-> "InvalidInput", msg |-> "Frame has size but expected",
                   frame |-> i - 1,
                   size |-> <<frames[i].width, frames[i].height>>,
                   expected |-> <<width, height>>])
         ELSE check_frames(frames, i + 1, width, height)

AsciiVideo_new(width, height, frames) == check_frames(frames, 1, width, height)

RECURSIVE write_frames(_)
write_frames(frames) ==
    IF frames = <<>> THEN <<>>
    ELSE AsciiSprite_write_to(Head(frames)) \o write_frames(Tail(frames))

\* the bytes write_to_file leaves in the file once flushed; failures of the
\* file system are not modelled
write_to_file(self) ==
    MAGIC \o write_u8(VERSION)
          \o write_u16_le(self.width)
          \o write_u16_le(self.height)
          \o write_u32_le(Len(self.frames))
          \o write_frames(self.frames)

\* Faulty variant of dimensions_out_of_range: 4096 itself is rejected
dimensions_out_of_range_strict(width, height) ==
    width = 0 \/ height = 0 \/ width >= 4096 \/ height >= 4096

dimensions_out_of_range(width, height) ==
    width = 0 \/ height = 0 \/ width > 4096 \/ height > 4096

too_many_frames(frame_count) == frame_count > 100000

\* the loop of read_from_file: n frames are still to be read from r
RECURSIVE read_frames(_, _, _, _, _)
read_frames(r, n, width, height, frames) ==
    IF n = 0 THEN Read(frames, r)
    ELSE Try(AsciiSprite_read_from(r, width, height), LAMBDA f :
             read_frames(f.rest, n - 1, width, height, Append(frames, f.val)))

\* read_from_file on a file holding the bytes r
read_from_file(r) ==
    Try(read_exact(r, 4), LAMBDA magic :
        IF magic.val # MAGIC THEN Err(Error("InvalidData", "bad magic number"))
        ELSE
    Try(read_u8(magic.rest), LAMBDA ver :
        IF ver.val # VERSION THEN Err(Error("InvalidData", "unsupported version"))
        ELSE
    Try(read_u16_le(ver.rest), LAMBDA width :
    Try(read_u16_le(width.rest), LAMBDA height :
    Try(read_u32_le(height.rest), LAMBDA frame_count :
        IF dimensions_out_of_range(width.val, height.val)
        THEN Err(Error("InvalidData", "dimensions out of range, max 4096x4096"))
        ELSE IF too_many_frames(frame_count.val)
        THEN Err(Error("InvalidData", "too many frames"))
        ELSE
    Try(read_frames(frame_count.rest, frame_count.val, width.val, height.val, <<>>),
        LAMBDA frames :
            AsciiVideo_new(width.val, height.val, frames.val)))))))

(***************************************************************************)
(* Inputs of the cell codec                                                *)
(***************************************************************************)
\* code points: NUL, 'A', both edges of the surrogate gap, the last scalar
CharSet == {0, 65, 55295, 57344, 1114111}

ChannelSet == {0, 7, 255}

RgbSet == {Color_rgb(r, g, b) : r \in ChannelSet, g \in ChannelSet, b \in ChannelSet}

\* a Reset colour may carry any rgb payload: the fields are public
ResetSet == {Color_reset, [reset |-> TRUE, rgb |-> <<255, 7, 0>>]}

ColourFieldSet == {None} \cup {Some(c) : c \in RgbSet \cup ResetSet}

CellSet ==
    {TerminalChar(ch, fg, bg) : ch \in CharSet, fg \in ColourFieldSet, bg \in ColourFieldSet}

Unused == <<>>

(***************************************************************************)
(* SpecCell: one TerminalChar is written to a buffer and read back         *)
(***************************************************************************)
InitCell ==
    /\ pc = "cell"
    /\ cell \in CellSet
    /\ buf = <<>>
    /\ decoded = Unused
    /\ colour = Unused /\ overflow_checks = FALSE /\ ansi = Unused /\ colour_out = Unused
    /\ args = Unused /\ sprite = Unused /\ grid = Unused /\ got = Unused
    /\ video = Unused /\ file = Unused /\ loaded = Unused

WriteCell ==
    /\ pc = "cell"
    /\ buf' = buf \o TerminalChar_write_to(cell)
    /\ pc' = "written"
    /\ UNCHANGED <<cell, decoded, colour, overflow_checks, ansi, colour_out,
                   args, sprite, grid, got, video, file, loaded>>

ReadCell ==
    /\ pc = "written"
    /\ decoded' = Result(TerminalChar_read_from(buf))
    /\ pc' = "read"
    /\ UNCHANGED <<cell, buf, colour, overflow_checks, ansi, colour_out,
                   args, sprite, grid, got, video, file, loaded>>

NextCell == WriteCell \/ ReadCell

SpecCell == InitCell /\ [][NextCell]_vars

\* a colour field the wire format can carry: None or Some of a non-Reset colour
IsPlain(field) == field = None \/ ~field[1].reset

\* a colour field that is Some of a non-Reset colour
IsPresent(field) == field # None /\ ~field[1].reset

\* C1: a cell whose colour fields are None or Some(Color::rgb(..)) is returned
\* unchanged by read_from applied to the bytes write_to produced for it.
C1_CellRoundTrip ==
    (pc = "read" /\ IsPlain(cell.fg_color) /\ IsPlain(cell.bg_color))
        => decoded = Ok(cell)

C1_Witness ==
    /\ pc = "read"
    /\ cell.chr = 1114111
    /\ cell.fg_color = Some(Color_rgb(255, 7, 0))
    /\ cell.bg_color = None
    /\ decoded = Ok(cell)

\* the bytes of one colour field as the format lays them out
FieldLayout(field) ==
    IF IsPresent(field)
    THEN <<1, field[1].rgb[1], field[1].rgb[2], field[1].rgb[3]>>
    ELSE <<0>>

\* the cell with every Some(Reset) field replaced by None
WithoutReset(c) ==
    TerminalChar(c.chr,
                 IF IsPresent(c.fg_color) THEN c.fg_color ELSE None,
                 IF IsPresent(c.bg_color) THEN c.bg_color ELSE None)

\* the layout of a cell on the wire, without its total length
CellLayout(c, bytes) ==
    /\ \A i \in 1..Len(bytes) : bytes[i] \in 0..255
    /\ Len(bytes) >= 4
    /\ bytes[1] + B1 * bytes[2] + B2 * bytes[3] + B3 * bytes[4] = c.chr
    /\ Drop(bytes, 4) = FieldLayout(c.fg_color) \o FieldLayout(c.bg_color)
    /\ bytes = TerminalChar_write_to(WithoutReset(c))

\* C9 (as stated): write_to emits the code point as 4 little-endian bytes,
\* then for the foreground a presence byte that is 1 exactly for Some of a
\* non-Reset colour, followed by r, g, b only then, then the same for the
\* background; the output is 5, 8 or 11 bytes long, and Some(Reset) encodes
\* like None.
C9_Original ==
    pc \in {"written", "read"} =>
        /\ CellLayout(cell, buf)
        /\ Len(buf) \in {5, 8, 11}

\* C9 (amended): the same layout, whose length is 6, 9 or 12 bytes: 4 for the
\* code point, one presence byte per colour field and 3 bytes per colour
\* present.
C9_CellLayout ==
    pc \in {"written", "read"} =>
        /\ CellLayout(cell, buf)
        /\ Len(buf) \in {6, 9, 12}
        /\ Len(buf) = 6 + 3 * Cardinality({f \in {"fg", "bg"} :
                IsPresent(IF f = "fg" THEN cell.fg_color ELSE cell.bg_color)})

C9_Witness ==
    /\ pc = "written"
    /\ cell.fg_color = Some([reset |-> TRUE, rgb |-> <<255, 7, 0>>])
    /\ cell.bg_color = Some(Color_rgb(0, 7, 255))
    /\ cell.chr = 57344
    /\ buf = <<0, 224, 0, 0, 0, 1, 0, 7, 255>>

(***************************************************************************)
(* SpecColour: a Color is converted to ANSI-256 and back                   *)
(***************************************************************************)
\* channel values around every threshold of to_6 and of the grey ramp, and
\* 4 and 12, which give inputs as far from grey 8 as from the cube's black
QuantChannelSet ==
    {0, 1, 2, 3, 4, 12, 47, 48, 114, 115, 128, 154, 155, 192, 238, 239, 255}

QuantColourSet ==
    {Color_rgb(r, g, b) : r \in QuantChannelSet, g \in QuantChannelSet, b \in QuantChannelSet}
        \cup ResetSet

InitColour ==
    /\ pc = "colour"
    /\ colour \in QuantColourSet
    /\ overflow_checks \in BOOLEAN
    /\ ansi = Unused /\ colour_out = Unused
    /\ cell = Unused /\ buf = Unused /\ decoded = Unused
    /\ args = Unused /\ sprite = Unused /\ grid = Unused /\ got = Unused
    /\ video = Unused /\ file = Unused /\ loaded = Unused

ToAnsi ==
    /\ pc = "colour"
    /\ ansi' = as_ansi256(colour, overflow_checks)
    /\ pc' = "quantized"
    /\ UNCHANGED <<cell, buf, decoded, colour, overflow_checks, colour_out,
                   args, sprite, grid, got, video, file, loaded>>

\* the caller unwraps the Option; a panic or a None ends the conversion
FromAnsi ==
    /\ pc = "quantized"
    /\ ~ansi.panicked
    /\ ansi.val # None
    /\ colour_out' = Color_from_ansi256(ansi.val[1])
    /\ pc' = "back"
    /\ UNCHANGED <<cell, buf, decoded, colour, overflow_checks, ansi,
                   args, sprite, grid, got, video, file, loaded>>

NextColour == ToAnsi \/ FromAnsi

SpecColour == InitColour /\ [][NextColour]_vars

\* squared Euclidean distance between two rgb triples
Dist(p, q) == color_dist(p[1], p[2], p[3], q[1], q[2], q[3])

\* C3: from_ansi256(to_ansi256(rgb)) is the RGB of a nearest palette entry,
\* nearest by squared Euclidean distance over all 256 codes of ansi256_to_rgb.
C3_NearestOfPalette ==
    pc = "back" =>
        \A k \in 0..255 :
            Dist(colour.rgb, colour_out.rgb) <= Dist(colour.rgb, ansi256_to_rgb(k))

(***************************************************************************)
(* SpecSprite: AsciiSprite::new on a pixel vector, then as_grid and        *)
(* get_char on the sprite it returned                                      *)
(***************************************************************************)
MaxDim == 2

MaxPixels == 5

\* widths and heights: the small ones, and 256, whose square is 2^16
DimSet == 0..MaxDim \cup {256}

\* coordinates probed with get_char: in range, just out of range, u16::MAX
ProbeSet == 0..(MaxDim + 1) \cup {65535}

PixelSet ==
    { TerminalChar(97, None, None),
      TerminalChar(98, Some(Color_rgb(255, 7, 0)), None),
      TerminalChar(99, None, Some(Color_rgb(0, 7, 255))) }

PixelVecs == UNION {[1..n -> PixelSet] : n \in 0..MaxPixels}

InitSprite ==
    /\ pc = "sprite"
    /\ args \in [width : DimSet, height : DimSet, pixels : PixelVecs]
    /\ sprite = Unused /\ grid = Unused /\ got = Unused
    /\ cell = Unused /\ buf = Unused /\ decoded = Unused
    /\ colour = Unused /\ overflow_checks = FALSE /\ ansi = Unused /\ colour_out = Unused
    /\ video = Unused /\ file = Unused /\ loaded = Unused

NewSprite ==
    /\ pc = "sprite"
    /\ sprite' = AsciiSprite_new(args.width, args.height, args.pixels)
    /\ pc' = "new"
    /\ UNCHANGED <<cell, buf, decoded, colour, overflow_checks, ansi, colour_out,
                   args, grid, got, video, file, loaded>>

AsGrid ==
    /\ pc = "new"
    /\ sprite.ok
    /\ grid' = as_grid(sprite.val)
    /\ pc' = "grid"
    /\ UNCHANGED <<cell, buf, decoded, colour, overflow_checks, ansi, colour_out,
                   args, sprite, got, video, file, loaded>>

GetChar ==
    /\ pc = "grid"
    /\ \E x \in ProbeSet, y \in ProbeSet :
          got' = [x |-> x, y |-> y, chr |-> get_char(sprite.val, x, y)]
    /\ pc' = "probed"
    /\ UNCHANGED <<cell, buf, decoded, colour, overflow_checks, ansi, colour_out,
                   args, sprite, grid, video, file, loaded>>

NextSprite == NewSprite \/ AsGrid \/ GetChar

SpecSprite == InitSprite /\ [][NextSprite]_vars

\* C6: AsciiSprite::new fails exactly when pixels.len() differs from the
\* unwrapped product width*height, and on success returns a sprite with the
\* given width, height and pixels, so that pixels.len() = width*height.
C6_SpriteNew ==
    pc = "new" =>
        /\ sprite.ok <=> Len(args.pixels) = args.width * args.height
        /\ sprite.ok =>
              /\ sprite.val.width = args.width
              /\ sprite.val.height = args.height
              /\ sprite.val.pixels = args.pixels
              /\ Len(sprite.val.pixels) = sprite.val.width * sprite.val.height

\* new(256, 256, []) fails although 256*256 is 0 on 16 bits
C6_WitnessNoWrap ==
    /\ pc = "new"
    /\ args.width = 256 /\ args.height = 256 /\ args.pixels = <<>>
    /\ ~sprite.ok

\* a successful construction of a 2x2 sprite
C6_Witness ==
    /\ pc = "new"
    /\ args.width = 2 /\ args.height = 2
    /\ sprite.ok

\* C8: as_grid() has height rows of width cells, as_grid()[y][x] =
\* get_char(x, y).unwrap() = pixels[y*width + x] for x < width, y < height,
\* and get_char(x, y) is None when x >= width or y >= height.
C8_GridFlat ==
    /\ pc \in {"grid", "probed"} =>
          /\ Len(grid) = sprite.val.height
          /\ \A y \in 1..Len(grid) :
                /\ Len(grid[y]) = sprite.val.width
                /\ \A x \in 1..Len(grid[y]) :
                      grid[y][x] = sprite.val.pixels[(y - 1) * sprite.val.width + x]
    /\ pc = "probed" =>
          IF got.x < sprite.val.width /\ got.y < sprite.val.height
          THEN /\ got.chr = Some(grid[got.y + 1][got.x + 1])
               /\ got.chr = Some(sprite.val.pixels[got.y * sprite.val.width + got.x + 1])
          ELSE got.chr = None

\* get_char(0, 1) of a 2x2 sprite with four different cells in its corners
C8_Witness ==
    /\ pc = "probed"
    /\ sprite.val.width = 2 /\ sprite.val.height = 2
    /\ sprite.val.pixels[2] # sprite.val.pixels[3]
    /\ got.x = 0 /\ got.y = 1
    /\ got.chr = Some(sprite.val.pixels[3])

(***************************************************************************)
(* SpecVideo: AsciiVideo::new on a vector of sprites, write_to_file of the *)
(* video it returned, read_from_file of that file                          *)
(***************************************************************************)
MaxFrames == 2

\* the cells frames are filled from: four colourless letters, cells with one
\* and with two colours, and a cell with a Reset foreground
CellPool ==
    << TerminalChar(65, None, None),
       TerminalChar(66, None, None),
       TerminalChar(67, None, None),
       TerminalChar(68, None, None),
       TerminalChar(1114111, Some(Color_rgb(255, 7, 0)), None),
       TerminalChar(0, Some(Color_rgb(1, 1, 1)), Some(Color_rgb(0, 7, 255))),
       TerminalChar(69, Some(Color_reset), None) >>

\* n cells taken from the pool, starting at seed and advancing by stride
GenPixels(n, seed, stride, offset) ==
    [i \in 1..n |->
        CellPool[((seed + stride * (offset + i - 1)) % Len(CellPool)) + 1]]

\* one sprite per entry of dims, each built with AsciiSprite::new; frame k
\* starts shift * (k - 1) cells further in the pool than the first
GenFrames(dims, seed, stride, shift) ==
    [k \in 1..Len(dims) |->
        AsciiSprite_new(dims[k][1], dims[k][2],
                        GenPixels(dims[k][1] * dims[k][2], seed, stride, shift * (k - 1))).val]

FrameDims == (1..MaxDim) \X (1..MaxDim)

FrameVecs ==
    { GenFrames(dims, seed, stride, shift) :
        dims \in UNION {[1..n -> FrameDims] : n \in 0..MaxFrames},
        seed \in 0..(Len(CellPool) - 1),
        stride \in {0, 1},
        shift \in {0, 2} }

InitVideo ==
    /\ pc = "video"
    /\ args \in [width : 0..MaxDim, height : 0..MaxDim, frames : FrameVecs]
    /\ video = Unused /\ file = Unused /\ loaded = Unused
    /\ cell = Unused /\ buf = Unused /\ decoded = Unused
    /\ colour = Unused /\ overflow_checks = FALSE /\ ansi = Unused /\ colour_out = Unused
    /\ sprite = Unused /\ grid = Unused /\ got = Unused

NewVideo ==
    /\ pc = "video"
    /\ video' = AsciiVideo_new(args.width, args.height, args.frames)
    /\ pc' = "constructed"
    /\ UNCHANGED <<cell, buf, decoded, colour, overflow_checks, ansi, colour_out,
                   args, sprite, grid, got, file, loaded>>

WriteFile ==
    /\ pc = "constructed"
    /\ video.ok
    /\ file' = write_to_file(video.val)
    /\ pc' = "written"
    /\ UNCHANGED <<cell, buf, decoded, colour, overflow_checks, ansi, colour_out,
                   args, sprite, grid, got, video, loaded>>

ReadFile ==
    /\ pc = "written"
    /\ loaded' = read_from_file(file)
    /\ pc' = "loaded"
    /\ UNCHANGED <<cell, buf, decoded, colour, overflow_checks, ansi, colour_out,
                   args, sprite, grid, got, video, file>>

NextVideo == NewVideo \/ WriteFile \/ ReadFile

SpecVideo == InitVideo /\ [][NextVideo]_vars

\* the 1-based positions of the frames whose dimensions are not the declared ones
Mismatched ==
    {i \in 1..Len(args.frames) :
        args.frames[i].width # args.width \/ args.frames[i].height # args.height}

\* C7: AsciiVideo::new fails if and only if some frame has a width or height
\* different from the declared ones; the index it reports is the smallest
\* index of such a frame; on success the video holds the frames in the given
\* order and every frame has the video's dimensions.
C7_VideoNew ==
    pc = "constructed" =>
        /\ video.ok <=> Mismatched = {}
        /\ ~video.ok =>
              /\ video.err.frame + 1 \in Mismatched
              /\ \A j \in Mismatched : video.err.frame + 1 <= j
        /\ video.ok =>
              /\ video.val.width = args.width
              /\ video.val.height = args.height
              /\ video.val.frames = args.frames
              /\ \A i \in 1..Len(video.val.frames) :
                    /\ video.val.frames[i].width = video.val.width
                    /\ video.val.frames[i].height = video.val.height

\* the first frame agrees in width only, the second in nothing: index 0
C7_Witness ==
    /\ pc = "constructed"
    /\ Len(args.frames) = 2
    /\ args.frames[1].width = args.width /\ args.frames[1].height # args.height
    /\ args.frames[2].width # args.width
    /\ ~video.ok
    /\ video.err.frame = 0

\* every cell of the video carries only None or Rgb colours
PlainVideo(v) ==
    \A k \in 1..Len(v.frames) : \A i \in 1..Len(v.frames[k].pixels) :
        /\ IsPlain(v.frames[k].pixels[i].fg_color)
        /\ IsPlain(v.frames[k].pixels[i].bg_color)

\* C2: for a video with 1 <= width, height <= 4 and 1 <= frame_count <= 4
\* whose frames have the video's dimensions and whose cells carry only None or
\* Rgb colours, read_from_file of the file written by write_to_file succeeds
\* and returns a video equal to the original.
C2_VideoRoundTrip ==
    ( /\ pc = "loaded"
      /\ video.val.width \in 1..4
      /\ video.val.height \in 1..4
      /\ Len(video.val.frames) \in 1..4
      /\ PlainVideo(video.val) )
        => loaded = Ok(video.val)

\* two different 2x2 frames, one of them with coloured cells, read back
C2_Witness ==
    /\ pc = "loaded"
    /\ video.val.width = 2 /\ video.val.height = 2
    /\ Len(video.val.frames) = 2
    /\ video.val.frames[1] # video.val.frames[2]
    /\ \E i \in 1..4 : video.val.frames[2].pixels[i].fg_color # None
    /\ PlainVideo(video.val)
    /\ loaded = Ok(video.val)

RECURSIVE Concat(_)
Concat(ss) == IF ss = <<>> THEN <<>> ELSE Head(ss) \o Concat(Tail(ss))

\* the bytes of one cell as the format lays them out
CellBytes(c) ==
    <<c.chr % B1, (c.chr \div B1) % B1, (c.chr \div B2) % B1, (c.chr \div B3) % B1>>
        \o FieldLayout(c.fg_color) \o FieldLayout(c.bg_color)

\* the cells of a frame in row-major order, each as its bytes
FrameBytes(f) ==
    Concat([j \in 1..(f.width * f.height) |->
               CellBytes(get_char(f, (j - 1) % f.width, (j - 1) \div f.width)[1])])

\* the file of a video: the 13-byte header, then the frames back to back
ContainerLayout(v, bytes) ==
    /\ Len(bytes) >= 13
    /\ \A i \in 1..Len(bytes) : bytes[i] \in 0..255
    /\ SubSeq(bytes, 1, 4) = <<65, 83, 67, 86>>
    /\ bytes[5] = 1
    /\ bytes[6] + B1 * bytes[7] = v.width
    /\ bytes[8] + B1 * bytes[9] = v.height
    /\ bytes[10] + B1 * bytes[11] + B2 * bytes[12] + B3 * bytes[13] = Len(v.frames)
    /\ Drop(bytes, 13) = Concat([k \in 1..Len(v.frames) |-> FrameBytes(v.frames[k])])
    /\ Len(bytes) = 13 + Len(Concat([k \in 1..Len(v.frames) |->
                            Concat([i \in 1..Len(v.frames[k].pixels) |->
                                TerminalChar_write_to(v.frames[k].pixels[i])])]))

\* a 2x2 video of two frames whose cells carry no colour
TwoByTwoColourless(v) ==
    /\ v.width = 2 /\ v.height = 2 /\ Len(v.frames) = 2
    /\ \A k \in 1..2 : \A i \in 1..4 :
          v.frames[k].pixels[i].fg_color = None /\ v.frames[k].pixels[i].bg_color = None

\* C10 (as stated): write_to_file emits exactly a 13-byte header ("ASCV",
\* version 1, width u16 LE, height u16 LE, frame count u32 LE) followed by the
\* cell encodings of every frame in frame order and row-major cell order, with
\* nothing between frames or after the last; the file length is 13 plus the
\* sum of the cell encoding sizes, 53 bytes for a 2x2, 2-frame video of
\* colourless cells.
C10_Original ==
    pc \in {"written", "loaded"} =>
        /\ ContainerLayout(video.val, file)
        /\ TwoByTwoColourless(video.val) => Len(file) = 53

\* C10 (amended): the same layout and length; a 2x2, 2-frame video of
\* colourless cells gives 13 + 2*(2*2*6) = 61 bytes.
C10_ContainerLayout ==
    pc \in {"written", "loaded"} =>
        /\ ContainerLayout(video.val, file)
        /\ TwoByTwoColourless(video.val) => Len(file) = 61

\* the frames A B C D twice, written
C10_Witness ==
    /\ pc = "written"
    /\ TwoByTwoColourless(video.val)
    /\ \A k \in 1..2 : \A i \in 1..4 : video.val.frames[k].pixels[i].chr = 64 + i
    /\ Len(file) = 61

(***************************************************************************)
(* SpecRead: read_from_file on files that write_to_file need not have      *)
(* written: any header fields, a payload of cells whose code points may be *)
(* invalid, and the whole cut short                                        *)
(***************************************************************************)
MaxCells == 3

MaxCut == 9

MagicSet == {MAGIC, <<65, 83, 67, 87>>, <<97, 83, 67, 86>>}

\* cells as they may lie in a file: two valid ones, a surrogate, and a code
\* point above 0x10FFFF
RawCellSet ==
    { TerminalChar(65, None, None),
      TerminalChar(66, Some(Color_rgb(255, 7, 0)), None),
      TerminalChar(55296, None, None),
      TerminalChar(1114112, None, Some(Color_rgb(0, 7, 255))) }

RawCellVecs == UNION {[1..n -> RawCellSet] : n \in 0..MaxCells}

HeaderBytes(c) ==
    c.magic \o <<c.version>>
            \o <<c.width % B1, c.width \div B1>>
            \o <<c.height % B1, c.height \div B1>>
            \o <<c.frame_count % B1, (c.frame_count \div B1) % B1,
                 (c.frame_count \div B2) % B1, c.frame_count \div B3>>

RawPayload(cells) == Concat([i \in 1..Len(cells) |-> CellBytes(cells[i])])

Case(magic, version, width, height, frame_count, cells, keep) ==
    [magic |-> magic, version |-> version, width |-> width, height |-> height,
     frame_count |-> frame_count, cells |-> cells, keep |-> keep]

\* the file of a case: the first `keep` bytes of header and payload
FileOf(c) == SubSeq(HeaderBytes(c) \o RawPayload(c.cells), 1, c.keep)

\* any header, whole or cut short, in front of no cell or of one
HeaderCase ==
    \E magic \in MagicSet, version \in {0, 1, 2},
       width \in {0, 1, 4096, 4097, 65535}, height \in {0, 1, 4096, 4097},
       frame_count \in {0, 1, 100000, 100001},
       cells \in {<<>>, <<TerminalChar(65, None, None)>>} :
        \E keep \in 0..13 \cup {13 + Len(RawPayload(cells))} :
            args = Case(magic, version, width, height, frame_count, cells, keep)

\* a valid header in front of up to MaxCells cells, up to MaxCut bytes short
PayloadCase ==
    \E width \in 1..MaxDim, height \in 1..MaxDim,
       frame_count \in 0..MaxFrames \cup {100000},
       cells \in RawCellVecs :
        \E cut \in 0..Min(MaxCut, Len(RawPayload(cells))) :
            args = Case(MAGIC, VERSION, width, height, frame_count, cells,
                        13 + Len(RawPayload(cells)) - cut)

InitRead ==
    /\ pc = "written"
    /\ HeaderCase \/ PayloadCase
    /\ file = FileOf(args)
    /\ video = Unused /\ loaded = Unused
    /\ cell = Unused /\ buf = Unused /\ decoded = Unused
    /\ colour = Unused /\ overflow_checks = FALSE /\ ansi = Unused /\ colour_out = Unused
    /\ sprite = Unused /\ grid = Unused /\ got = Unused

NextRead == ReadFile

SpecRead == InitRead /\ [][NextRead]_vars

\* the header fields as they lie in the file, for a file of 13 bytes or more
FileWidth == file[6] + B1 * file[7]

FileHeight == file[8] + B1 * file[9]

FileFrameCount == file[10] + B1 * file[11] + B2 * file[12] + B3 * file[13]

\* the header is cut short, or one of its fields is not acceptable
BadHeader ==
    \/ Len(file) < 13
    \/ SubSeq(file, 1, 4) # <<65, 83, 67, 86>>
    \/ file[5] # 1
    \/ FileWidth = 0 \/ FileWidth > 4096
    \/ FileHeight = 0 \/ FileHeight > 4096
    \/ FileFrameCount > 100000

\* the messages of the errors that reject a header field
HeaderRejections ==
    {"bad magic number", "unsupported version",
     "dimensions out of range, max 4096x4096", "too many frames"}

\* C4: read_from_file returns an error, and no video, whenever the header is
\* shorter than 13 bytes, the magic is not "ASCV", the version is not 1, width
\* or height is 0 or above 4096, or frame_count is above 100000; and it
\* rejects no header for one of these reasons when the magic is "ASCV", the
\* version 1, width and height in 1..=4096 and frame_count <= 100000.
C4_HeaderValidation ==
    pc = "loaded" =>
        /\ BadHeader => (~loaded.ok /\ DOMAIN loaded = {"ok", "err"})
        /\ ~BadHeader => (loaded.ok \/ loaded.err.msg \notin HeaderRejections)

\* the largest acceptable header is accepted: 4096x4096 and no frame
C4_Witness ==
    /\ pc = "loaded"
    /\ ~BadHeader
    /\ FileWidth = 4096 /\ FileHeight = 4096 /\ FileFrameCount = 0
    /\ loaded = Ok(AsciiVideo(4096, 4096, <<>>))

\* a width of 4097 is rejected
C4_WitnessRejected ==
    /\ pc = "loaded"
    /\ Len(file) >= 13 /\ FileWidth = 4097 /\ FileHeight = 1
    /\ SubSeq(file, 1, 4) = <<65, 83, 67, 86>> /\ file[5] = 1
    /\ ~loaded.ok

\* the number of cells the header announces, frame_count * width * height,
\* with each factor counted up to MaxCells + 1 only: the result is exact up to
\* MaxCells, and above MaxCells exactly when the product is
CellsNeeded ==
    Min(args.frame_count, MaxCells + 1) * Min(args.width * args.height, MaxCells + 1)

\* the number of cells of the case that lie whole in the file
CellsWhole ==
    Cardinality({n \in 1..Len(args.cells) :
        13 + Len(RawPayload(SubSeq(args.cells, 1, n))) <= Len(file)})

\* the positions, among the cells the header announces, of the cells whose
\* code point lies in the file and is no Unicode scalar value
CellsInvalid ==
    {n \in 1..Len(args.cells) :
        /\ n <= CellsNeeded
        /\ 13 + Len(RawPayload(SubSeq(args.cells, 1, n - 1))) + 4 <= Len(file)
        /\ \/ args.cells[n].chr > 1114111
           \/ args.cells[n].chr \in 55296..57343}

\* C5: after a valid header, when the stream ends before
\* frame_count*width*height cells have been read whole, or when the code point
\* of one of these cells is no Unicode scalar value, TerminalChar::read_from
\* fails, the failure is propagated, and read_from_file returns an error and
\* no partially decoded video.
C5_PayloadFailure ==
    (pc = "loaded" /\ ~BadHeader /\ (CellsWhole < CellsNeeded \/ CellsInvalid # {}))
        => /\ ~loaded.ok
           /\ DOMAIN loaded = {"ok", "err"}
           /\ loaded.err \in {UnexpectedEof.err,
                               Error("InvalidData", "invalid Unicode scalar value")}
           /\ CellsInvalid = {} => loaded.err = UnexpectedEof.err
           /\ CellsWhole >= CellsNeeded =>
                 loaded.err = Error("InvalidData", "invalid Unicode scalar value")

\* a frame of two cells whose second is a surrogate, in a file that is whole
C5_Witness ==
    /\ pc = "loaded"
    /\ ~BadHeader
    /\ CellsNeeded = 2 /\ CellsWhole = 2
    /\ args.cells[1].chr = 65 /\ args.cells[2].chr = 55296
    /\ loaded = Err(Error("InvalidData", "invalid Unicode scalar value"))

\* a file that ends inside the colour of its last cell
C5_WitnessTruncated ==
    /\ pc = "loaded"
    /\ ~BadHeader
    /\ CellsNeeded = 2 /\ CellsWhole = 1 /\ CellsInvalid = {}
    /\ Len(file) = 13 + 6 + 7
    /\ loaded = UnexpectedEof

\* without a bad header, a short stream or an invalid code point, the read succeeds
ReadSucceeds ==
    (pc = "loaded" /\ ~BadHeader /\ CellsWhole >= CellsNeeded /\ CellsInvalid = {})
        => loaded.ok

(***************************************************************************)
(* SpecColour: the choice between the two candidates, and totality         *)
(***************************************************************************)
\* the candidates rgb_to_ansi256 compares for the colour at hand
CubeCandidate == cube_index(colour.rgb[1], colour.rgb[2], colour.rgb[3])

GreyCandidate == gray_code(colour.rgb[1], colour.rgb[2], colour.rgb[3])

\* the colour is as far from its grey candidate as from its cube candidate
Tie ==
    /\ ~colour.reset
    /\ Dist(colour.rgb, ansi256_to_rgb(GreyCandidate))
         = Dist(colour.rgb, ansi256_to_rgb(CubeCandidate))

\* C11 (as stated): for an input whose grey and cube candidates are at equal
\* squared distance, rgb_to_ansi256 returns the grey candidate.
C11_Original ==
    (pc \in {"quantized", "back"} /\ Tie) => ansi = Returned(Some(GreyCandidate))

\* C11 (amended): for an input whose grey and cube candidates are at equal
\* squared distance, rgb_to_ansi256 returns the cube candidate: grey is
\* returned only when it is strictly nearer.
C11_CubeWinsTies ==
    (pc \in {"quantized", "back"} /\ Tie) => ansi = Returned(Some(CubeCandidate))

\* rgb(4, 4, 4) is at distance 48 from grey 8 (code 232) and from black (16)
C11_Witness ==
    /\ pc = "quantized"
    /\ colour.rgb = <<4, 4, 4>>
    /\ Tie
    /\ GreyCandidate = 232 /\ CubeCandidate = 16
    /\ ansi = Returned(Some(16))

\* C12: for every r, g, b in 0..=255 rgb_to_ansi256 completes with every
\* intermediate value inside the range of its unsigned type, so as_ansi256
\* returns Some(code) with code in 16..=255 for every non-Reset colour,
\* near-black ones included, and None only for Reset.
C12_Totality ==
    pc \in {"quantized", "back"} =>
        IF colour.reset
        THEN ansi = Returned(None)
        ELSE /\ ~rgb_to_ansi256_overflows(colour.rgb[1], colour.rgb[2], colour.rgb[3])
             /\ ~ansi.panicked
             /\ ansi.val # None
             /\ ansi.val[1] \in 16..255

\* what holds of the code: outside the near-black inputs, whose channel
\* average is below 3, no intermediate leaves its type and a code in 16..=255
\* is returned; Reset gives None
TotalAboveNearBlack ==
    pc \in {"quantized", "back"} =>
        IF colour.reset
        THEN ansi = Returned(None)
        ELSE LET avg == channel_avg(colour.rgb[1], colour.rgb[2], colour.rgb[3]) IN
             /\ rgb_to_ansi256_overflows(colour.rgb[1], colour.rgb[2], colour.rgb[3])
                   <=> avg < 3
             /\ ansi.panicked <=> (overflow_checks /\ avg < 3)
             /\ ~ansi.panicked => (ansi.val # None /\ ansi.val[1] \in 16..255)

====
